---- MODULE Spec2Model ----
(***************************************************************************)
(* Model of src/main.py: the receipt-print client service.                 *)
(*                                                                         *)
(* One process, three HTTP handlers (upload_image, print_image,            *)
(* get_job_status) over the in-memory job store jobs_db and the local      *)
(* uploads directory.  Each handler runs to completion without awaiting    *)
(* anything but its own request body, so one action models one request.    *)
(*                                                                         *)
(* Text (filenames, paths, content types) is a sequence of one-character   *)
(* strings, except for a few fixed multi-character tokens that contain no  *)
(* "." : "uploads", "image", "text", "plain", "image_" and the job ids.    *)
(* A byte stream is a record of what the code observes of it: its length,  *)
(* what PIL's Image.open makes of it, and its leading magic bytes.         *)
(***************************************************************************)
EXTENDS Integers, Sequences, FiniteSets, TLC

VARIABLES
    jobs_db,   \* main.py:44   job id -> job record
    disk,      \* the file system under the working directory: path -> bytes
    api_log,   \* the POSTs received by the printer API, in order
    last,      \* the last request handled and the response it got
    clock,     \* number of requests handled so far; datetime.now() reads it
    printed    \* job ids a print request was made for (history)

vars == <<jobs_db, disk, api_log, last, clock, printed>>

----------------------------------------------------------------------------
(* Bounds of the model *)

MaxJobs == 2        \* uuid4 values that may be drawn
MaxRequests == 3    \* requests handled in one behaviour

----------------------------------------------------------------------------
(* Text helpers: str.lower, str.endswith, str.startswith, str.replace *)

LowerChar(c) ==
    CASE c = "H" -> "h"
      [] c = "E" -> "e"
      [] c = "I" -> "i"
      [] c = "C" -> "c"
      [] c = "F" -> "f"
      [] c = "P" -> "p"
      [] c = "N" -> "n"
      [] c = "G" -> "g"
      [] c = "J" -> "j"
      [] OTHER -> c

Lower(s) == [i \in 1..Len(s) |-> LowerChar(s[i])]

MatchAt(s, i, pat) ==
    /\ i + Len(pat) - 1 <= Len(s)
    /\ \A k \in 1..Len(pat) : s[i + k - 1] = pat[k]

StartsWith(s, pat) == MatchAt(s, 1, pat)

EndsWith(s, suf) == Len(suf) <= Len(s) /\ MatchAt(s, Len(s) - Len(suf) + 1, suf)

RECURSIVE ReplaceFrom(_, _, _, _)
ReplaceFrom(s, i, pat, rep) ==
    IF i > Len(s) THEN <<>>
    ELSE IF MatchAt(s, i, pat) THEN rep \o ReplaceFrom(s, i + Len(pat), pat, rep)
    ELSE <<s[i]>> \o ReplaceFrom(s, i + 1, pat, rep)

\* str.replace(pat, rep): every non-overlapping occurrence, left to right
Replace(s, pat, rep) == ReplaceFrom(s, 1, pat, rep)

DotHeicLower == <<".", "h", "e", "i", "c">>
DotHeicUpper == <<".", "H", "E", "I", "C">>
DotHeifLower == <<".", "h", "e", "i", "f">>
DotHeifUpper == <<".", "H", "E", "I", "F">>
DotJpg == <<".", "j", "p", "g">>

----------------------------------------------------------------------------
(* Configuration, main.py:40-44 *)

API_HOST == "http://printer-api:8080"
UPLOAD_DIR == <<"uploads">>
SizeLimit == 10 * 1024 * 1024

\* Path("uploads") / name, then str(): the components joined by "/"
PathJoin(dir, name) == dir \o <<"/">> \o name

\* open(path, "wb") creates the file in an existing directory only: the name
\* must not reach into a directory that does not exist.  UPLOAD_DIR holds
\* no subdirectory (the service only ever writes plain files into it).
CanCreate(path) == \A i \in (Len(UPLOAD_DIR) + 2)..Len(path) : path[i] # "/"

----------------------------------------------------------------------------
(* Byte streams.  pil is what Image.open(...).format.lower() gives ("" when  *)
(* the format is None, "raise" when Image.open raises); mode is the decoded  *)
(* image's mode; magic names the leading bytes the fallback looks at.        *)

EmptyBytes == [size |-> 0, pil |-> "raise", mode |-> "", magic |-> "none"]
PngBytes == [size |-> 2048, pil |-> "png", mode |-> "RGBA", magic |-> "png"]
HeicBytes == [size |-> 4096, pil |-> "heif", mode |-> "RGB", magic |-> "ftypheic"]
\* a HEIC container PIL cannot open (pillow_heif missing, or a damaged file)
HeicRawBytes == [size |-> 4096, pil |-> "raise", mode |-> "", magic |-> "ftypheic"]
BmpBytes == [size |-> 2048, pil |-> "bmp", mode |-> "RGB", magic |-> "none"]
JunkBytes == [size |-> 16, pil |-> "raise", mode |-> "", magic |-> "none"]
RiffBytes == [size |-> 16, pil |-> "raise", mode |-> "", magic |-> "riff"]
LimitPngBytes == [size |-> SizeLimit, pil |-> "png", mode |-> "RGB", magic |-> "png"]
BigPngBytes == [size |-> SizeLimit + 1, pil |-> "png", mode |-> "RGB", magic |-> "png"]

ByteStreams ==
    {EmptyBytes, PngBytes, HeicBytes, HeicRawBytes, BmpBytes, JunkBytes,
     RiffBytes, LimitPngBytes, BigPngBytes}

\* img.convert('RGB') when needed, then img.save(path, 'JPEG', quality=85)
JpegOf(c) == [size |-> c.size, pil |-> "jpeg", mode |-> "RGB", magic |-> "jpeg"]

supported_formats == {"jpeg", "jpg", "png", "gif", "webp", "heic", "heif"}
heic_patterns == {"ftypheic", "ftypheif", "ftypmif1", "ftypmsf1"}

\* validate_image whose magic-byte fallback ends in "return True"
validate_image_lenient(file_content) ==
    IF file_content.pil # "raise"
    THEN file_content.pil \in supported_formats
    ELSE TRUE

\* main.py:47-90.  The PIL verdict is final when Image.open succeeds; the
\* magic bytes are consulted only when it raises.
validate_image(file_content) ==
    IF file_content.pil # "raise"
    THEN file_content.pil \in supported_formats
    ELSE \/ file_content.magic \in heic_patterns
         \/ file_content.magic = "jpeg"
         \/ file_content.magic = "png"
         \/ file_content.magic = "gif8"
         \/ file_content.magic = "riffwebp"

----------------------------------------------------------------------------
(* Requests and responses *)

JobId(n) == "uuid-" \o ToString(n)
JobIds == {JobId(n) : n \in 1..MaxJobs}
\* identifiers a client may ask about: every uuid, and one never issued
AskedIds == JobIds \cup {"no-such-job"}

NoName == <<>>                                   \* UploadFile.filename is None
PngName == <<"a", ".", "p", "n", "g">>
HeicName == <<"b", ".", "h", "e", "i", "c">>
HeicUpperName == <<"b", ".", "H", "E", "I", "C">>
HeicMixedName == <<"b", ".", "H", "e", "i", "c">>
HeifName == <<"c", ".", "h", "e", "i", "f">>
NestedName == <<"d", "/", "e", ".", "p", "n", "g">>
FileNames == {NoName, PngName, HeicName, HeicUpperName, HeicMixedName, HeifName, NestedName}

NoType == <<>>                                   \* no declared content type
ImageType == <<"image", "/", "p", "n", "g">>
TextType == <<"text", "/", "plain">>
ContentTypes == {NoType, ImageType, TextType}

\* what the printer API does with one POST: a response, or a transport error
ApiOutcomes ==
    {[exc |-> "", code |-> 200], [exc |-> "", code |-> 201], [exc |-> "", code |-> 503],
     [exc |-> "Timeout", code |-> 0], [exc |-> "ConnectionError", code |-> 0],
     [exc |-> "RequestException", code |-> 0]}

NoApi == [exc |-> "", code |-> 0]
NoBytes == [size |-> 0, pil |-> "", mode |-> "", magic |-> ""]

Response(op, job_id, code, detail, status) ==
    [op |-> op, job_id |-> job_id, code |-> code, detail |-> detail, status |-> status]

\* fastapi.HTTPException(status_code, detail)
HTTPException(op, job_id, status_code, detail) == Response(op, job_id, status_code, detail, "")

\* an exception no handler catches: Starlette answers 500 Internal Server Error
Unhandled(op, job_id, exc) == Response(op, job_id, 500, <<"Internal Server Error", exc>>, "")

Request(filename, ctype, content, write_ok, api) ==
    [filename |-> filename, ctype |-> ctype, content |-> content,
     write_ok |-> write_ok, api |-> api]

NoRequest == Request(NoName, NoType, NoBytes, TRUE, NoApi)

----------------------------------------------------------------------------
(* The job store and the disk *)

Put(f, k, v) == [x \in DOMAIN f \cup {k} |-> IF x = k THEN v ELSE f[x]]
Drop(f, k) == [x \in DOMAIN f \ {k} |-> f[x]]

\* main.py:123-130
NewJob(safe_filename, file_path, size, now) ==
    [filename |-> safe_filename, file_path |-> file_path, size |-> size,
     status |-> "uploaded", created_at |-> now, updated_at |-> now]

\* jobs_db = {job_id: record}: the store rebuilt around the new record alone
StoreJobAlone(db, job_id, record) == [x \in {job_id} |-> record]

\* main.py:123  jobs_db[job_id] = {...}
StoreJob(db, job_id, record) == Put(db, job_id, record)

\* main.py:194-195, 204-205, 230-231, 255-256
SetStatus(db, job_id, status, now) ==
    [db EXCEPT ![job_id].status = status, ![job_id].updated_at = now]

\* a generator that hands out the same identifier every time
Uuid4Constant(db) == {JobId(1)}

\* main.py:115  str(uuid.uuid4()).  Successive draws are distinct values (a
\* collision of two random 122-bit values is not modelled); the n-th value
\* drawn for a stored job is named uuid-n.
Uuid4(db) == {JobId(Cardinality(DOMAIN db) + 1)}

Outcome(db, dk, log, resp) == [db |-> db, disk |-> dk, log |-> log, resp |-> resp]

----------------------------------------------------------------------------
(* POST /api/upload, main.py:93-144 *)

upload_image(db, dk, log, req, job_id, now) ==
    LET file_content == req.content
        safe_filename == IF req.filename # NoName THEN req.filename ELSE <<"image_", job_id>>
        filename == <<job_id, "_">> \o safe_filename
        file_path == PathJoin(UPLOAD_DIR, filename)
    IN  IF req.ctype # NoType /\ ~StartsWith(req.ctype, <<"image", "/">>)
        THEN Outcome(db, dk, log, HTTPException("upload", "", 400,
                 <<"Invalid file type. Only images are allowed.">>))
        ELSE IF file_content.size = 0
        THEN Outcome(db, dk, log, HTTPException("upload", "", 400, <<"Empty file received.">>))
        ELSE IF ~validate_image(file_content)
        THEN Outcome(db, dk, log, HTTPException("upload", "", 400,
                 <<"Invalid image format. Only JPG, PNG, GIF, HEIC, HEIF are supported.">>))
        ELSE IF file_content.size > SizeLimit
        THEN Outcome(db, dk, log, HTTPException("upload", "", 400,
                 <<"File too large. Maximum size is 10MB.">>))
        ELSE IF ~(req.write_ok /\ CanCreate(file_path))
        \* open()/write() raised: "except Exception" at 142-144
        THEN Outcome(db, dk, log, HTTPException("upload", "", 500, <<"Upload failed: ", "OSError">>))
        ELSE Outcome(StoreJob(db, job_id, NewJob(safe_filename, file_path, file_content.size, now)),
                     Put(dk, file_path, file_content), log,
                     Response("upload", job_id, 200, <<"success">>, ""))

----------------------------------------------------------------------------
(* GET /api/status/{job_id}, main.py:282-294 *)

\* a status handler that answers for any identifier
get_job_status_any(db, dk, log, job_id) ==
    Outcome(db, dk, log,
            Response("status", job_id, 200, <<"Job is ">>,
                     IF job_id \in DOMAIN db THEN db[job_id].status ELSE "unknown"))

get_job_status(db, dk, log, job_id) ==
    IF job_id \notin DOMAIN db
    THEN Outcome(db, dk, log, HTTPException("status", job_id, 404, <<"Job not found">>))
    ELSE Outcome(db, dk, log,
                 Response("status", job_id, 200, <<"Job is ", db[job_id].status>>,
                          db[job_id].status))

----------------------------------------------------------------------------
(* POST /api/print/{job_id}, main.py:147-279 *)

\* main.py:152  job = jobs_db[job_id]/idm
\* No module-level or builtin name idm exists: evaluating the right operand
\* of the division raises NameError, before the try block is entered.
LookupJob(db, job_id) == [raised |-> "NameError", job |-> db[job_id]]

\* main.py:165
IsHeicName(filename) ==
    \/ EndsWith(Lower(filename), DotHeicLower)
    \/ EndsWith(Lower(filename), DotHeifLower)

\* main.py:175  four case-sensitive str.replace calls, over the whole path
ConvertedPath(file_path) ==
    Replace(Replace(Replace(Replace(file_path, DotHeicUpper, DotJpg),
                            DotHeicLower, DotJpg),
                    DotHeifUpper, DotJpg),
            DotHeifLower, DotJpg)

\* main.py:161-184.  What the transcoding step leaves: the disk, and the
\* file to forward (converted_file).  Image.open raising, or img.save
\* raising (save_ok false), falls back to the original file; Image.save
\* loads the image before it opens its target, so saving onto the source
\* path replaces the source with the JPEG.
Transcode(dk, job, save_ok) ==
    LET file_path == job.file_path
        converted_path == ConvertedPath(file_path)
    IN  IF IsHeicName(job.filename)
        THEN IF dk[file_path].pil # "raise" /\ save_ok
             THEN [disk |-> Put(dk, converted_path, JpegOf(dk[file_path])),
                   converted_file |-> converted_path]
             ELSE [disk |-> dk, converted_file |-> file_path]
        ELSE [disk |-> dk, converted_file |-> file_path]

\* main.py:272-279  finally: remove the converted file when it is another file
Cleanup(dk, converted_file, file_path) ==
    IF converted_file # file_path /\ converted_file \in DOMAIN dk
    THEN Drop(dk, converted_file)
    ELSE dk

\* main.py:239-246
TransportMessage(exc) ==
    CASE exc = "Timeout" ->
           <<"Printer API timeout after 30 seconds. Check if printer service is running at ",
             API_HOST>>
      [] exc = "ConnectionError" ->
           <<"Cannot connect to printer API at ", API_HOST,
             ". Service may be down or unreachable.">>
      [] exc = "HTTPError" -> <<"HTTP error from printer API: ", exc>>
      [] OTHER -> <<"Network error connecting to printer API at ", API_HOST, ": ", exc>>

\* main.py:155-279  the try statement, entered with job bound
PrintBody(db, dk, log, job_id, job, req, now) ==
    IF job.file_path \notin DOMAIN dk
    \* 157-159 raises HTTPException(404); it is re-raised at 252-253, and the
    \* finally clause then reads converted_file, which is bound only at 163:
    \* UnboundLocalError replaces the HTTPException
    THEN Outcome(db, dk, log, Unhandled("print", job_id, "UnboundLocalError"))
    ELSE
    LET file_path == job.file_path
        t == Transcode(dk, job, req.write_ok)
        sent == [filename |-> job.filename, content |-> t.disk[t.converted_file]]
        after == Cleanup(t.disk, t.converted_file, file_path)
        api == req.api
    IN  IF api.exc # ""
        \* 229-251
        THEN Outcome(SetStatus(db, job_id, "failed", now), after, Append(log, sent),
                     HTTPException("print", job_id, 500, TransportMessage(api.exc)))
        ELSE IF api.code = 200
        \* 193-202
        THEN Outcome(SetStatus(db, job_id, "completed", now), after, Append(log, sent),
                     Response("print", job_id, 200, <<"Print job completed successfully">>, ""))
        \* 203-227
        ELSE Outcome(SetStatus(db, job_id, "failed", now), after, Append(log, sent),
                     HTTPException("print", job_id, 500,
                         <<"Printer API error (HTTP ", ToString(api.code), "): ",
                           "... | API Host: ", API_HOST>>))

print_image(db, dk, log, job_id, req, now) ==
    IF job_id \notin DOMAIN db
    THEN Outcome(db, dk, log, HTTPException("print", job_id, 404, <<"Job not found">>))
    ELSE LET looked == LookupJob(db, job_id)
         IN  IF looked.raised # ""
             THEN Outcome(db, dk, log, Unhandled("print", job_id, looked.raised))
             ELSE PrintBody(db, dk, log, job_id, looked.job, req, now)

----------------------------------------------------------------------------
(* The state machine *)

\* the request handled last, with what held when it arrived
Handled(op, job_id, req, resp) ==
    [op |-> op, job_id |-> job_id, req |-> req, resp |-> resp,
     known |-> job_id \in DOMAIN jobs_db,
     file_exists |-> job_id \in DOMAIN jobs_db /\ jobs_db[job_id].file_path \in DOMAIN disk,
     heic |-> job_id \in DOMAIN jobs_db /\ IsHeicName(jobs_db[job_id].filename),
     stored |-> IF job_id \in DOMAIN jobs_db /\ jobs_db[job_id].file_path \in DOMAIN disk
                THEN disk[jobs_db[job_id].file_path] ELSE NoBytes,
     printed_before |-> job_id \in printed,
     fresh |-> resp.job_id \notin DOMAIN jobs_db,
     calls_before |-> Len(api_log)]

Init ==
    /\ jobs_db = << >>
    /\ disk = << >>
    /\ api_log = << >>
    /\ clock = 0
    /\ printed = {}
    /\ last = [op |-> "none", job_id |-> "", req |-> NoRequest,
               resp |-> Response("none", "", 0, << >>, ""),
               known |-> FALSE, file_exists |-> FALSE, heic |-> FALSE,
               stored |-> NoBytes, printed_before |-> FALSE, fresh |-> FALSE, calls_before |-> 0]

Apply(out) ==
    /\ jobs_db' = out.db
    /\ disk' = out.disk
    /\ api_log' = out.log
    /\ clock' = clock + 1

\* The uploads tried: every byte stream under every declared content type
\* (so several checks may fail at once), every file name with an image that
\* passes, and a write the file system refuses.
UploadInputs ==
    {Request(PngName, ctype, content, TRUE, NoApi) :
        ctype \in ContentTypes, content \in ByteStreams}
    \cup {Request(filename, NoType, HeicBytes, TRUE, NoApi) : filename \in FileNames}
    \cup {Request(HeicName, ImageType, HeicRawBytes, TRUE, NoApi),
          Request(NoName, ImageType, PngBytes, TRUE, NoApi),
          Request(NestedName, ImageType, PngBytes, TRUE, NoApi),
          Request(PngName, ImageType, PngBytes, FALSE, NoApi)}

\* The prints tried: every answer of the printer API, and a transcoding
\* whose img.save fails.
PrintInputs ==
    {Request(NoName, NoType, NoBytes, TRUE, api) : api \in ApiOutcomes}
    \cup {Request(NoName, NoType, NoBytes, FALSE, api) :
             api \in {[exc |-> "", code |-> 200], [exc |-> "", code |-> 503]}}

UploadRequest ==
    /\ clock < MaxRequests
    /\ Cardinality(DOMAIN jobs_db) < MaxJobs
    /\ \E req \in UploadInputs, job_id \in Uuid4(jobs_db) :
          LET out == upload_image(jobs_db, disk, api_log, req, job_id, clock + 1)
          IN  /\ Apply(out)
              /\ last' = Handled("upload", "", req, out.resp)
              /\ UNCHANGED printed

PrintRequest ==
    /\ clock < MaxRequests
    /\ \E job_id \in AskedIds, req \in PrintInputs :
          LET out == print_image(jobs_db, disk, api_log, job_id, req, clock + 1)
          IN  /\ Apply(out)
              /\ last' = Handled("print", job_id, req, out.resp)
              /\ printed' = printed \cup {job_id}

StatusRequest ==
    /\ clock < MaxRequests
    /\ \E job_id \in AskedIds :
          LET out == get_job_status(jobs_db, disk, api_log, job_id)
          IN  /\ Apply(out)
              /\ last' = Handled("status", job_id, NoRequest, out.resp)
              /\ UNCHANGED printed

\* something outside the service deletes a file from the uploads directory
RemoveFile ==
    /\ \E path \in DOMAIN disk : disk' = Drop(disk, path)
    /\ UNCHANGED <<jobs_db, api_log, last, clock, printed>>

Next == UploadRequest \/ PrintRequest \/ StatusRequest \/ RemoveFile

Spec == Init /\ [][Next]_vars

----------------------------------------------------------------------------
(* Properties *)

\* a request was handled in this step
Handles(op) == clock' # clock /\ last'.op = op

Contains(detail, part) == \E i \in 1..Len(detail) : detail[i] = part

\* C1: a print request for a stored job whose file exists marks the job
\* "completed" and answers with success when the printer API answers 200, and
\* marks it "failed" and answers 500 with the code in the message when the
\* printer API answers anything else.
C1_PrintFollowsApiStatus ==
    (/\ last.op = "print"
     /\ last.known
     /\ last.file_exists
     /\ last.req.api.exc = "")
    => IF last.req.api.code = 200
       THEN /\ jobs_db[last.job_id].status = "completed"
            /\ last.resp.code = 200
       ELSE /\ jobs_db[last.job_id].status = "failed"
            /\ last.resp.code = 500
            /\ Contains(last.resp.detail, ToString(last.req.api.code))

\* C3: a print request for a stored job whose file is gone from the disk is
\* answered 404.
C3_MissingFileIs404 ==
    (last.op = "print" /\ last.known /\ ~last.file_exists) => last.resp.code = 404

\* C7: a print request for a stored job whose file exists, when the call to
\* the printer API fails in transport, marks the job "failed" and answers 500
\* with the message of that kind of failure (timeout, connection refused,
\* other), the three messages being different.
C7_TransportFailureMarksFailed ==
    /\ (/\ last.op = "print"
        /\ last.known
        /\ last.file_exists
        /\ last.req.api.exc # "")
       => /\ jobs_db[last.job_id].status = "failed"
          /\ last.resp.code = 500
          /\ last.resp.detail = TransportMessage(last.req.api.exc)
    /\ TransportMessage("Timeout") # TransportMessage("ConnectionError")
    /\ TransportMessage("Timeout") # TransportMessage("RequestException")
    /\ TransportMessage("ConnectionError") # TransportMessage("RequestException")

\* C9: a print request for a stored HEIC/HEIF-named job whose file exists
\* makes one forwarding call; it forwards the original bytes when the
\* transcoding failed and the transcoded JPEG otherwise; and the job ends
\* "completed" exactly when the printer API answered 200, "failed" otherwise.
C9_HeicStatusFollowsApi ==
    (/\ last.op = "print"
     /\ last.known
     /\ last.file_exists
     /\ last.heic)
    => /\ Len(api_log) = last.calls_before + 1
       /\ api_log[Len(api_log)].content =
             IF last.stored.pil # "raise" /\ last.req.write_ok
             THEN JpegOf(last.stored) ELSE last.stored
       /\ jobs_db[last.job_id].status =
             IF last.req.api.exc = "" /\ last.req.api.code = 200
             THEN "completed" ELSE "failed"

\* The four upload checks as the specification words them.
RecognisedImage(content) ==
    IF content.pil # "raise"
    THEN content.pil \in {"jpeg", "png", "gif", "webp", "heic", "heif"}
    ELSE content.magic \in {"jpeg", "png", "gif8", "riffwebp",
                            "ftypheic", "ftypheif", "ftypmif1", "ftypmsf1"}

FailsACheck(req) ==
    \/ req.ctype # NoType /\ req.ctype[1] # "image"
    \/ req.content.size = 0
    \/ req.content.size > 10 * 1024 * 1024
    \/ ~RecognisedImage(req.content)

WriteSucceeds(req) == req.write_ok /\ \A i \in 1..Len(req.filename) : req.filename[i] # "/"

\* C4: an upload that fails one of the four checks (a declared content type
\* that is not image/..., an empty body, a body over 10 MiB, bytes that are
\* no recognised image) is answered 400 and leaves the job store as it was.
C4_RejectedUploadIs400 ==
    [][(Handles("upload") /\ FailsACheck(last'.req))
        => (last'.resp.code = 400 /\ jobs_db' = jobs_db)]_vars

\* C4's case: an upload was rejected while the store held a job
C4_Witness ==
    /\ last.op = "upload"
    /\ FailsACheck(last.req)
    /\ last.resp.code = 400
    /\ DOMAIN jobs_db # {}

\* C5 as claimed: every upload that passes the four checks is answered with
\* success and a non-empty job identifier the store did not hold, and a
\* status request for a stored job that no print request was made for
\* reports "uploaded".
C5_ValidUploadSucceeds ==
    /\ (last.op = "upload" /\ ~FailsACheck(last.req))
       => /\ last.resp.code = 200
          /\ last.resp.job_id # ""
          /\ last.fresh
    /\ (last.op = "status" /\ last.known /\ ~last.printed_before)
       => /\ last.resp.code = 200
          /\ last.resp.status = "uploaded"

\* C5 as amended: every upload that passes the four checks and whose file
\* is written without error is answered with success and a non-empty job
\* identifier the store did not hold, one whose write fails is answered 500,
\* and a status request for a stored job that no print request was made for
\* reports "uploaded".
C5_WrittenUploadSucceeds ==
    /\ (last.op = "upload" /\ ~FailsACheck(last.req) /\ WriteSucceeds(last.req))
       => /\ last.resp.code = 200
          /\ last.resp.job_id # ""
          /\ last.fresh
          /\ last.resp.job_id \in DOMAIN jobs_db
    /\ (last.op = "upload" /\ ~FailsACheck(last.req) /\ ~WriteSucceeds(last.req))
       => last.resp.code = 500
    /\ (last.op = "status" /\ last.known /\ ~last.printed_before)
       => /\ last.resp.code = 200
          /\ last.resp.status = "uploaded"

\* C5's case: the status of an uploaded job was asked before any print of it
C5_Witness ==
    /\ last.op = "status"
    /\ last.known
    /\ ~last.printed_before
    /\ last.resp.status = "uploaded"

\* C6: a print or status request for an identifier the store does not hold
\* is answered 404, makes no call to the printer API and leaves the store
\* as it was.
C6_UnknownJobIs404 ==
    [][((Handles("print") \/ Handles("status")) /\ last'.job_id \notin DOMAIN jobs_db)
        => /\ last'.resp.code = 404
           /\ api_log' = api_log
           /\ jobs_db' = jobs_db]_vars

\* C6's case: an unknown identifier was asked about while the store held a job
C6_Witness ==
    /\ last.op \in {"print", "status"}
    /\ ~last.known
    /\ last.resp.code = 404
    /\ DOMAIN jobs_db # {}

\* C10: no step removes a record; a print request leaves every other record
\* as it was and, of its own job's record, the filename, the storage path,
\* the size and the creation timestamp; a status request and a step that is
\* no request leave the store as it was; an upload leaves every record that
\* already exists as it was.
C10_FrameOfJobRecords ==
    [][/\ DOMAIN jobs_db \subseteq DOMAIN jobs_db'
       /\ Handles("print") =>
             \A j \in DOMAIN jobs_db :
                IF j = last'.job_id
                THEN /\ jobs_db'[j].filename = jobs_db[j].filename
                     /\ jobs_db'[j].file_path = jobs_db[j].file_path
                     /\ jobs_db'[j].size = jobs_db[j].size
                     /\ jobs_db'[j].created_at = jobs_db[j].created_at
                ELSE jobs_db'[j] = jobs_db[j]
       /\ Handles("status") => jobs_db' = jobs_db
       /\ Handles("upload") => \A j \in DOMAIN jobs_db : jobs_db'[j] = jobs_db[j]
       /\ clock' = clock => jobs_db' = jobs_db]_vars

\* C10's case: a stored job was printed while the store held another job
C10_Witness ==
    /\ last.op = "print"
    /\ last.known
    /\ Cardinality(DOMAIN jobs_db) >= 2

====
